---- MODULE Spec2Model ----
(***************************************************************************)
(* Model of the mini-app SDK bridge: the four facades (authenticate,       *)
(* deposit, withdraw, callSmartContract), sendMessageToApp,                *)
(* waitForResponse with its timeout callback and its message handler, the  *)
(* environment probe isWebView and the BigInt-safe serializer.             *)
(***************************************************************************)
EXTENDS Integers, Sequences, FiniteSets, TLC

(***************************************************************************)
(* Bounds of the model.                                                    *)
(***************************************************************************)
MaxCalls == 2
MaxEvents == 2
MaxTicks == 2
MaxDepth == 2

(***************************************************************************)
(* Program constants.                                                      *)
(***************************************************************************)
DefaultTimeout == 60000
TickMs == DefaultTimeout \div 2
MaxNow == MaxTicks * TickMs

WebViewAction == {"AUTHENTICATE", "DEPOSIT", "WITHDRAW", "CALL_SMART_CONTRACT"}
ActionResponse ==
  {"AUTHENTICATE_RESPONSE", "DEPOSIT_RESPONSE", "WITHDRAW_RESPONSE",
   "CALL_SMART_CONTRACT_RESPONSE"}
TransactionResult == {"SUCCESS", "FAILED", "CANCELLED"}
HostMarker == "ReactNativeWebView"

(***************************************************************************)
(* JavaScript values, tagged by their typeof / kind.  An object is the     *)
(* sequence of its own enumerable entries <<key, value>> in insertion      *)
(* order.                                                                  *)
(***************************************************************************)
Undefined == [t |-> "undefined"]
Null == [t |-> "null"]
Bool(b) == [t |-> "boolean", v |-> b]
Num(n) == [t |-> "number", v |-> n]
Str(s) == [t |-> "string", v |-> s]
\* A BigInt is its sign and its decimal digits, most significant first, so
\* that magnitudes beyond the safe-integer range are exact.
BigInt(neg, digits) == [t |-> "bigint", neg |-> neg, v |-> digits]
Arr(elems) == [t |-> "array", v |-> elems]
Obj(entries) == [t |-> "object", v |-> entries]
Error(msg) == [t |-> "error", v |-> msg]

\* value.key for a property read: TypeError on null and undefined,
\* undefined on primitives, arrays and objects without the key.
HasKey(value, key) ==
  value.t = "object" /\ \E i \in 1..Len(value.v) : value.v[i][1] = key
GetKey(value, key) ==
  IF HasKey(value, key)
  THEN value.v[CHOOSE i \in 1..Len(value.v) :
                 /\ value.v[i][1] = key
                 /\ \A j \in (i+1)..Len(value.v) : value.v[j][1] # key][2]
  ELSE Undefined
ReadThrows(value) == value.t \in {"null", "undefined"}

(***************************************************************************)
(* Number and BigInt formatting.                                           *)
(***************************************************************************)
Digit == <<"0", "1", "2", "3", "4", "5", "6", "7", "8", "9">>

RECURSIVE NatToString(_)
NatToString(n) ==
  IF n < 10 THEN Digit[n + 1]
  ELSE NatToString(n \div 10) \o Digit[(n % 10) + 1]

\* BigInt.prototype.toString(): the exact decimal digits, with a sign.
RECURSIVE DigitsToString(_)
DigitsToString(digits) ==
  IF digits = <<>> THEN ""
  ELSE Digit[Head(digits) + 1] \o DigitsToString(Tail(digits))
BigIntToString(big) ==
  IF big.neg THEN "-" \o DigitsToString(big.v) ELSE DigitsToString(big.v)

\* Variant: the milliseconds are not divided by 1000.
MillisAsSecondsUndivided(ms) == NatToString(ms)

\* `${ms / 1000}` for a non-negative integer ms: the shortest decimal.
MillisAsSeconds(ms) ==
  LET whole == ms \div 1000
      frac == ms % 1000
  IN  IF frac = 0 THEN NatToString(whole)
      ELSE IF frac % 100 = 0
        THEN NatToString(whole) \o "." \o NatToString(frac \div 100)
      ELSE IF frac % 10 = 0
        THEN NatToString(whole) \o "." \o Digit[(frac \div 100) + 1]
               \o Digit[((frac \div 10) % 10) + 1]
      ELSE NatToString(whole) \o "." \o Digit[(frac \div 100) + 1]
               \o Digit[((frac \div 10) % 10) + 1] \o Digit[(frac % 10) + 1]

(***************************************************************************)
(* utils.ts: convertToString and stringifyMessage.                         *)
(***************************************************************************)
\* Variant: the elements of an array are not converted.
RECURSIVE convertToStringSkipsArrays(_)
convertToStringSkipsArrays(value) ==
  IF value.t = "bigint" THEN Str(BigIntToString(value))
  ELSE IF value.t = "object"
    THEN LET assigned == SelectSeq(value.v, LAMBDA e : e[1] # "__proto__")
         IN  Obj([i \in 1..Len(assigned) |->
                    <<assigned[i][1],
                      convertToStringSkipsArrays(assigned[i][2])>>])
  ELSE value

\* converted[key] = ... for the entries of Object.entries(value), in order.
\* An assignment to the key '__proto__' of the fresh object runs the setter
\* inherited from Object.prototype: it sets the prototype of converted or
\* does nothing, and never makes an entry of converted.
RECURSIVE convertToString(_)
convertToString(value) ==
  IF value.t = "bigint" THEN Str(BigIntToString(value))
  ELSE IF value.t = "array"
    THEN Arr([i \in 1..Len(value.v) |-> convertToString(value.v[i])])
  ELSE IF value.t = "object"
    THEN LET assigned == SelectSeq(value.v, LAMBDA e : e[1] # "__proto__")
         IN  Obj([i \in 1..Len(assigned) |->
                    <<assigned[i][1], convertToString(assigned[i][2])>>])
  ELSE value

\* A text is either the JSON document it spells or not JSON at all.
JsonText(doc) == [k |-> "json", doc |-> doc]
NotJson == [k |-> "garbage"]
ThrowsTypeError == [k |-> "TypeError"]

\* JSON.stringify's SerializeJSONProperty with a replacer: the replacer is
\* applied to every property value before it is serialized; undefined
\* entries of an object are left out, undefined elements of an array are
\* null, a BigInt that is still there raises a TypeError.
RECURSIVE SerializeJSONProperty(_)
Serializable(value) ==
  /\ value.t # "bigint"
  /\ value.t = "array" =>
       \A i \in 1..Len(value.v) :
         SerializeJSONProperty(value.v[i]) # ThrowsTypeError
  /\ value.t = "object" =>
       \A i \in 1..Len(value.v) :
         SerializeJSONProperty(value.v[i][2]) # ThrowsTypeError
SerializeJSONProperty(holderValue) ==
  LET value == convertToString(holderValue)
      kept == SelectSeq(value.v,
                LAMBDA e : SerializeJSONProperty(e[2]) # Undefined)
  IN  IF ~Serializable(value) THEN ThrowsTypeError
      ELSE IF value.t = "undefined" THEN Undefined
      ELSE IF value.t = "array"
        THEN Arr([i \in 1..Len(value.v) |->
               IF SerializeJSONProperty(value.v[i]) = Undefined THEN Null
               ELSE SerializeJSONProperty(value.v[i])])
      ELSE IF value.t = "object"
        THEN Obj([i \in 1..Len(kept) |->
                    <<kept[i][1], SerializeJSONProperty(kept[i][2])>>])
      ELSE value

stringifyMessage(message) ==
  LET doc == SerializeJSONProperty(message)
  IN  IF doc = ThrowsTypeError THEN ThrowsTypeError
      ELSE IF doc = Undefined THEN Undefined
      ELSE JsonText(doc)

\* JSON.parse: the value the text spells, or a SyntaxError.
JSONParse(text) ==
  IF text.k = "json" THEN [ok |-> TRUE, value |-> text.doc]
  ELSE [ok |-> FALSE, value |-> Undefined]

(***************************************************************************)
(* The environment the probe reads.  The user agent is a sequence of       *)
(* fragments cut so that an occurrence of the marker is a fragment.        *)
(***************************************************************************)
NoWindow ==
  [defined |-> FALSE, ReactNativeWebView |-> FALSE, userAgent |-> <<>>,
   classList |-> {}]
UserAgents ==
  {<<"Mozilla/5.0">>, <<"Mozilla/5.0 ", HostMarker, "/1.0">>,
   <<"Mozilla/5.0 ", "reactnativewebview", "/1.0">>}
Environments ==
  {NoWindow} \cup
  [defined : {TRUE}, ReactNativeWebView : BOOLEAN, userAgent : UserAgents,
   classList : {{}, {HostMarker}}]

\* The environments a run starts in: no window, a plain browser, the
\* WebView with its bridge object, and a user agent that carries the
\* marker while the bridge object is missing.
InitialEnvironments ==
  {NoWindow,
   [defined |-> TRUE, ReactNativeWebView |-> FALSE,
    userAgent |-> <<"Mozilla/5.0">>, classList |-> {}],
   [defined |-> TRUE, ReactNativeWebView |-> TRUE,
    userAgent |-> <<"Mozilla/5.0 ", HostMarker, "/1.0">>, classList |-> {}],
   [defined |-> TRUE, ReactNativeWebView |-> FALSE,
    userAgent |-> <<"Mozilla/5.0 ", HostMarker, "/1.0">>, classList |-> {}]}

Includes(fragments, marker) ==
  \E i \in 1..Len(fragments) : fragments[i] = marker

\* Variant: only the bridge object counts.
isWebViewBridgeOnly(w) ==
  IF w.defined THEN w.ReactNativeWebView ELSE FALSE

isWebView(w) ==
  IF w.defined
  THEN \/ w.ReactNativeWebView
       \/ Includes(w.userAgent, HostMarker)
       \/ HostMarker \in w.classList
  ELSE FALSE

(***************************************************************************)
(* State.                                                                  *)
(*   window     the environment                                            *)
(*   now        the clock, in ms                                           *)
(*   promises   one promise per facade call, in call order                 *)
(*   listeners  the window's 'message' listeners, in registration order;   *)
(*              a listener is the handleMessage closure of call id         *)
(*   timers     the armed timeouts [id, due]                               *)
(*   posted     the texts handed to ReactNativeWebView.postMessage         *)
(*   delivered  the number of inbound events so far                        *)
(*   ghost      history per call: its action, its arguments, when it was   *)
(*              made, what it posted, the first reply for it, what else   *)
(*              it was handed                                              *)
(*   input      the value a direct call of a utils.ts function is given    *)
(*   output     what the direct calls returned for it                      *)
(***************************************************************************)
VARIABLES window, now, promises, listeners, timers, posted, delivered, ghost,
          input, output

vars ==
  <<window, now, promises, listeners, timers, posted, delivered, ghost,
    input, output>>

(***************************************************************************)
(* Promise settlement: the first resolve or reject decides, later calls    *)
(* have no effect.  resolveCalls and rejectCalls count the invocations.    *)
(***************************************************************************)
NewPromise(expectedAction) ==
  [expected |-> expectedAction, status |-> "pending", value |-> Undefined,
   resolveCalls |-> 0, rejectCalls |-> 0]

resolve(p, value) ==
  [p EXCEPT !.resolveCalls = @ + 1,
            !.status = IF p.status = "pending" THEN "fulfilled" ELSE @,
            !.value = IF p.status = "pending" THEN value ELSE @]

reject(p, reason) ==
  [p EXCEPT !.rejectCalls = @ + 1,
            !.status = IF p.status = "pending" THEN "rejected" ELSE @,
            !.value = IF p.status = "pending" THEN reason ELSE @]

removeEventListener(ls, id) == SelectSeq(ls, LAMBDA l : l # id)
clearTimeout(ts, id) == {t \in ts : t.id # id}

NotWebViewError(action) ==
  Error(action \o " can only be used inside a React Native WebView")

TimeoutError(timeout, expectedAction) ==
  Error("Timeout, " \o MillisAsSeconds(timeout) \o "s passed waiting for "
        \o expectedAction \o " response.")

\* Variant: the WebView check is left out.
sendMessageToAppUnchecked(w, sent, message) ==
  IF w.defined /\ w.ReactNativeWebView
  THEN [threw |-> FALSE, posted |-> Append(sent, stringifyMessage(message))]
  ELSE [threw |-> FALSE, posted |-> sent]

(***************************************************************************)
(* sendMessageToApp: throws when not in a WebView, posts the serialized    *)
(* message when the bridge object is there, and does nothing otherwise.    *)
(***************************************************************************)
sendMessageToApp(w, sent, message) ==
  IF ~isWebView(w)
  THEN [threw |-> TRUE, posted |-> sent,
        error |-> NotWebViewError(GetKey(message, "action").v)]
  ELSE IF w.defined /\ w.ReactNativeWebView
    THEN [threw |-> FALSE, posted |-> Append(sent, stringifyMessage(message))]
  ELSE [threw |-> FALSE, posted |-> sent]

\* Variant: the timeout is armed and the handler is not registered yet.
waitForResponseListensLater(st, id, expectedAction, timeout) ==
  [st EXCEPT
     !.promises = Append(@, NewPromise(expectedAction)),
     !.timers = @ \cup {[id |-> id, due |-> now + timeout,
                        timeout |-> timeout]}]

(***************************************************************************)
(* waitForResponse: the promise executor arms the timeout and registers    *)
(* the handler.                                                            *)
(***************************************************************************)
waitForResponse(st, id, expectedAction, timeout) ==
  [st EXCEPT
     !.promises = Append(@, NewPromise(expectedAction)),
     !.timers = @ \cup {[id |-> id, due |-> now + timeout,
                        timeout |-> timeout]},
     !.listeners = Append(@, id)]

\* Variant: the callback rejects and leaves the listener registered.
timeoutCallbackKeepsListener(st, timer) ==
  [st EXCEPT
     !.promises[timer.id] =
        reject(@, TimeoutError(timer.timeout, @.expected))]

\* Variant: the callback removes the listener and does not reject.
timeoutCallbackSilent(st, timer) ==
  [st EXCEPT !.listeners = removeEventListener(@, timer.id)]

\* The timeout callback of call id.
timeoutCallback(st, timer) ==
  [st EXCEPT
     !.listeners = removeEventListener(@, timer.id),
     !.promises[timer.id] =
        reject(@, TimeoutError(timer.timeout, @.expected))]

\* Variant: the promise is resolved with the event's text, not parsed.
handleMessageRawData(st, id, event) ==
  LET expectedAction == st.promises[id].expected
      parsed == JSONParse(event.data)
      response == parsed.value
  IN  IF ~parsed.ok \/ ReadThrows(response) THEN st
      ELSE IF GetKey(response, "action") = Str(expectedAction)
        THEN [st EXCEPT
                !.timers = clearTimeout(@, id),
                !.listeners = removeEventListener(@, id),
                !.promises[id] = resolve(@, event.data)]
      ELSE st

\* Variant: the timeout is not cleared on a reply.
handleMessageKeepsTimer(st, id, event) ==
  LET expectedAction == st.promises[id].expected
      parsed == JSONParse(event.data)
      response == parsed.value
  IN  IF ~parsed.ok \/ ReadThrows(response) THEN st
      ELSE IF GetKey(response, "action") = Str(expectedAction)
        THEN [st EXCEPT
                !.listeners = removeEventListener(@, id),
                !.promises[id] = resolve(@, response)]
      ELSE st

\* Variant: the catch block rejects the promise with the parse error.
handleMessageRejectsMalformed(st, id, event) ==
  LET expectedAction == st.promises[id].expected
      parsed == JSONParse(event.data)
      response == parsed.value
  IN  IF ~parsed.ok \/ ReadThrows(response)
      THEN [st EXCEPT
              !.timers = clearTimeout(@, id),
              !.listeners = removeEventListener(@, id),
              !.promises[id] = reject(@, Error("SyntaxError"))]
      ELSE IF GetKey(response, "action") = Str(expectedAction)
        THEN [st EXCEPT
                !.timers = clearTimeout(@, id),
                !.listeners = removeEventListener(@, id),
                !.promises[id] = resolve(@, response)]
      ELSE st

\* Variant: any parsed message settles the request, whatever its action.
handleMessageAnyAction(st, id, event) ==
  LET parsed == JSONParse(event.data)
      response == parsed.value
  IN  IF ~parsed.ok \/ ReadThrows(response) THEN st
      ELSE [st EXCEPT
              !.timers = clearTimeout(@, id),
              !.listeners = removeEventListener(@, id),
              !.promises[id] = resolve(@, response)]

\* Variant: a reply whose result is not SUCCESS rejects the promise.
handleMessageRejectsFailure(st, id, event) ==
  LET expectedAction == st.promises[id].expected
      parsed == JSONParse(event.data)
      response == parsed.value
  IN  IF ~parsed.ok \/ ReadThrows(response) THEN st
      ELSE IF GetKey(response, "action") = Str(expectedAction)
        THEN [st EXCEPT
                !.timers = clearTimeout(@, id),
                !.listeners = removeEventListener(@, id),
                !.promises[id] =
                   IF GetKey(response, "result") = Str("SUCCESS")
                   THEN resolve(@, response)
                   ELSE reject(@, GetKey(response, "error"))]
      ELSE st

\* Variant: a JSON string that spells the expected action settles the
\* request too.
handleMessageAcceptsBareAction(st, id, event) ==
  LET expectedAction == st.promises[id].expected
      parsed == JSONParse(event.data)
      response == parsed.value
  IN  IF ~parsed.ok \/ ReadThrows(response) THEN st
      ELSE IF \/ GetKey(response, "action") = Str(expectedAction)
              \/ response = Str(expectedAction)
        THEN [st EXCEPT
                !.timers = clearTimeout(@, id),
                !.listeners = removeEventListener(@, id),
                !.promises[id] = resolve(@, response)]
      ELSE st

\* Variant: any of the four response actions settles the request.
handleMessageAnyResponse(st, id, event) ==
  LET parsed == JSONParse(event.data)
      response == parsed.value
  IN  IF ~parsed.ok \/ ReadThrows(response) THEN st
      ELSE IF GetKey(response, "action") \in {Str(a) : a \in ActionResponse}
        THEN [st EXCEPT
                !.timers = clearTimeout(@, id),
                !.listeners = removeEventListener(@, id),
                !.promises[id] = resolve(@, response)]
      ELSE st

\* Variant: a reply clears every armed timeout, not only its own.
handleMessageClearsAllTimers(st, id, event) ==
  LET expectedAction == st.promises[id].expected
      parsed == JSONParse(event.data)
      response == parsed.value
  IN  IF ~parsed.ok \/ ReadThrows(response) THEN st
      ELSE IF GetKey(response, "action") = Str(expectedAction)
        THEN [st EXCEPT
                !.timers = {},
                !.listeners = removeEventListener(@, id),
                !.promises[id] = resolve(@, response)]
      ELSE st

\* Variant: a reply is taken by the oldest request for its action only.
handleMessageOldestOnly(st, id, event) ==
  LET expectedAction == st.promises[id].expected
      parsed == JSONParse(event.data)
      response == parsed.value
  IN  IF ~parsed.ok \/ ReadThrows(response) THEN st
      ELSE IF /\ GetKey(response, "action") = Str(expectedAction)
              /\ \A k \in 1..(id - 1) :
                   st.promises[k].expected # expectedAction
        THEN [st EXCEPT
                !.timers = clearTimeout(@, id),
                !.listeners = removeEventListener(@, id),
                !.promises[id] = resolve(@, response)]
      ELSE st

\* Variant: a reply resolves the promise and the listener stays registered.
handleMessageKeepsListener(st, id, event) ==
  LET expectedAction == st.promises[id].expected
      parsed == JSONParse(event.data)
      response == parsed.value
  IN  IF ~parsed.ok \/ ReadThrows(response) THEN st
      ELSE IF GetKey(response, "action") = Str(expectedAction)
        THEN [st EXCEPT
                !.timers = clearTimeout(@, id),
                !.promises[id] = resolve(@, response)]
      ELSE st

\* handleMessage of call id, invoked with an inbound event.  A text that
\* does not parse, and a parsed null whose property read throws, end in the
\* catch block; the console lines are not part of the state.
handleMessage(st, id, event) ==
  LET expectedAction == st.promises[id].expected
      parsed == JSONParse(event.data)
      response == parsed.value
  IN  IF ~parsed.ok \/ ReadThrows(response)
      THEN st
      ELSE IF GetKey(response, "action") = Str(expectedAction)
        THEN [st EXCEPT
                !.timers = clearTimeout(@, id),
                !.listeners = removeEventListener(@, id),
                !.promises[id] = resolve(@, response)]
      ELSE st

\* Variant: the dispatch stops at the first handler that settles its request.
RECURSIVE dispatchEventFirstMatchOnly(_, _, _)
dispatchEventFirstMatchOnly(st, handlers, event) ==
  IF handlers = <<>> THEN st
  ELSE IF handleMessage(st, Head(handlers), event) # st
    THEN handleMessage(st, Head(handlers), event)
  ELSE dispatchEventFirstMatchOnly(st, Tail(handlers), event)

\* The window dispatches an event to the listeners registered when the
\* dispatch starts, in registration order.
RECURSIVE dispatchEvent(_, _, _)
dispatchEvent(st, handlers, event) ==
  IF handlers = <<>> THEN st
  ELSE dispatchEvent(handleMessage(st, Head(handlers), event),
                     Tail(handlers), event)

(***************************************************************************)
(* The facades.  Each builds its message, calls sendMessageToApp and then  *)
(* awaits waitForResponse with its response action and the default         *)
(* timeout; a throw of sendMessageToApp rejects the facade's promise.      *)
(***************************************************************************)
Bundle ==
  [promises |-> promises, listeners |-> listeners, timers |-> timers]

NewGhost(action, expectedAction, sentCount, subscribed, args) ==
  [action |-> action, expected |-> expectedAction, args |-> args,
   posts |-> sentCount,
   subscribed |-> subscribed, calledAt |-> now, replied |-> FALSE,
   reply |-> Undefined, replyInTime |-> FALSE, replyBeforeFire |-> FALSE,
   seen |-> {}, fired |-> FALSE]

\* A text is a reply for an expected action when it spells a JSON object
\* whose action is that string.
IsReplyFor(text, expectedAction) ==
  /\ text.k = "json"
  /\ text.doc.t = "object"
  /\ \E i \in 1..Len(text.doc.v) :
       /\ text.doc.v[i][1] = "action"
       /\ text.doc.v[i][2] = Str(expectedAction)

\* The kind of a text that is no reply for an expected action.
KindOf(text, expectedAction) ==
  IF text.k # "json" THEN "unparseable"
  ELSE IF text.doc.t = "object" /\ HasKey(text.doc, "action") THEN "mismatch"
  ELSE "no action"

\* History of an inbound event, for each call made from a WebView and
\* whatever the state of the call: the first reply delivered for it, whether
\* that came before the timeout had elapsed and before the timeout callback
\* ran, and the kinds of the other texts delivered while the call was
\* pending.
NoteReply(g, text) ==
  [i \in DOMAIN g |->
     IF ~g[i].subscribed THEN g[i]
     ELSE IF ~IsReplyFor(text, g[i].expected)
       THEN IF promises[i].status = "pending"
            THEN [g[i] EXCEPT !.seen = @ \cup {KindOf(text, g[i].expected)}]
            ELSE g[i]
     ELSE IF g[i].replied THEN g[i]
     ELSE [g[i] EXCEPT !.replied = TRUE, !.reply = text.doc,
                       !.replyInTime = (now - g[i].calledAt < DefaultTimeout),
                       !.replyBeforeFire = ~g[i].fired]]

\* History of a timeout callback.
NoteFired(g, id) == [g EXCEPT ![id].fired = TRUE]

\* Variant: a second argument of the call is passed on as the timeout.
TimeoutPassedFromCaller(args) ==
  IF Len(args) >= 2 /\ args[2].t = "number" THEN args[2].v
  ELSE DefaultTimeout

\* The timeout a facade waits with: each calls waitForResponse with the
\* response action alone, so the parameter takes its default whatever the
\* arguments of the facade call.
TimeoutPassed(args) == DefaultTimeout

\* A facade called with the argument list args, of which it has built its
\* message.
Facade(action, message, expectedAction, args) ==
  LET id == Len(promises) + 1
      sent == sendMessageToApp(window, posted, message)
      st == waitForResponse(Bundle, id, expectedAction, TimeoutPassed(args))
  IN  /\ posted' = sent.posted
      /\ ghost' = Append(ghost,
                    NewGhost(action, expectedAction,
                             Len(sent.posted) - Len(posted), ~sent.threw,
                             args))
      /\ IF sent.threw
         THEN /\ promises' =
                   Append(promises, reject(NewPromise(""), sent.error))
              /\ UNCHANGED <<listeners, timers>>
         ELSE /\ promises' = st.promises
              /\ listeners' = st.listeners
              /\ timers' = st.timers
      /\ UNCHANGED <<window, now, delivered, input, output>>

Entry(key, value) == <<key, value>>

\* Calls are made up to MaxCalls times, until the clock reaches MaxNow.
MayCall == Len(promises) < MaxCalls /\ now <= MaxNow

DepositInputs ==
  {Obj(<<Entry("amount", Str("100")), Entry("tokenName", Str("USDC")),
         Entry("chainId", Num(137))>>)}

\* Variant: deposit waits for the response of withdraw.
depositCallAwaitsWithdraw(args) ==
  LET arg == args[1]
  IN  Facade("DEPOSIT",
             Obj(<<Entry("action", Str("DEPOSIT")),
                   Entry("data",
                     Obj(<<Entry("amount", GetKey(arg, "amount")),
                           Entry("tokenName", GetKey(arg, "tokenName")),
                           Entry("chainId", GetKey(arg, "chainId"))>>))>>),
             "WITHDRAW_RESPONSE", args)

\* deposit(...args): the first argument is destructured.
depositCall(args) ==
  LET arg == args[1]
  IN  Facade("DEPOSIT",
             Obj(<<Entry("action", Str("DEPOSIT")),
                   Entry("data",
                     Obj(<<Entry("amount", GetKey(arg, "amount")),
                           Entry("tokenName", GetKey(arg, "tokenName")),
                           Entry("chainId", GetKey(arg, "chainId"))>>))>>),
             "DEPOSIT_RESPONSE", args)

deposit ==
  /\ MayCall
  /\ \E arg \in DepositInputs : depositCall(<<arg>>)

WithdrawInputs ==
  {Obj(<<Entry("amount", Str("50")), Entry("tokenName", Str("ETH"))>>)}

\* withdraw(...args).
withdrawCall(args) ==
  LET arg == args[1]
  IN  Facade("WITHDRAW",
             Obj(<<Entry("action", Str("WITHDRAW")),
                   Entry("data",
                     Obj(<<Entry("amount", GetKey(arg, "amount")),
                           Entry("tokenName", GetKey(arg, "tokenName"))>>))>>),
             "WITHDRAW_RESPONSE", args)

withdraw ==
  /\ MayCall
  /\ \E arg \in WithdrawInputs : withdrawCall(<<arg>>)

\* 2^53 + 1, beyond the safe-integer range.
UnsafeBigInt == BigInt(FALSE, <<9, 0, 0, 7, 1, 9, 9, 2, 5, 4, 7, 4, 0, 9, 9, 3>>)

Contract ==
  Obj(<<Entry("contractAddress", Str("0x1")),
        Entry("functionName", Str("transfer")),
        Entry("functionParams", Arr(<<Str("0x2"), UnsafeBigInt>>)),
        Entry("value", Str("0"))>>)

CallSmartContractInputs ==
  {Obj(<<Entry("contracts", Arr(<<Contract>>)),
         Entry("titleValues", Obj(<<Entry("amount", Str("100"))>>))>>)}

\* Variant: descriptionValues is left out of the message.
callSmartContractCallDropsDescription(args) ==
  LET arg == args[1]
  IN  Facade("CALL_SMART_CONTRACT",
             Obj(<<Entry("action", Str("CALL_SMART_CONTRACT")),
                   Entry("data",
                     Obj(<<Entry("contracts", GetKey(arg, "contracts")),
                           Entry("titleValues",
                                 GetKey(arg, "titleValues"))>>))>>),
             "CALL_SMART_CONTRACT_RESPONSE", args)

\* callSmartContract(...args).
callSmartContractCall(args) ==
  LET arg == args[1]
  IN  Facade("CALL_SMART_CONTRACT",
             Obj(<<Entry("action", Str("CALL_SMART_CONTRACT")),
                   Entry("data",
                     Obj(<<Entry("contracts", GetKey(arg, "contracts")),
                           Entry("titleValues", GetKey(arg, "titleValues")),
                           Entry("descriptionValues",
                                 GetKey(arg, "descriptionValues"))>>))>>),
             "CALL_SMART_CONTRACT_RESPONSE", args)

callSmartContract ==
  /\ MayCall
  /\ \E arg \in CallSmartContractInputs : callSmartContractCall(<<arg>>)

\* The parameter defaults to {} when the argument is undefined.
AuthenticateInputs ==
  {Undefined}

\* authenticate(...args): a missing or undefined first argument is {}.
authenticateCall(args) ==
  LET given == IF args = <<>> THEN Undefined ELSE args[1]
      arg == IF given = Undefined THEN Obj(<<>>) ELSE given
  IN  Facade("AUTHENTICATE",
             Obj(<<Entry("action", Str("AUTHENTICATE")),
                   Entry("data",
                     Obj(<<Entry("nonce", GetKey(arg, "nonce")),
                           Entry("chainId", GetKey(arg, "chainId"))>>))>>),
             "AUTHENTICATE_RESPONSE", args)

authenticate ==
  /\ MayCall
  /\ \E given \in AuthenticateInputs :
       authenticateCall(IF given = Undefined THEN <<>> ELSE <<given>>)

(***************************************************************************)
(* The host and the event loop.                                            *)
(***************************************************************************)
Envelope(action, result) ==
  Obj(<<Entry("action", Str(action)), Entry("result", Str(result))>> \o
      (IF result = "SUCCESS"
       THEN <<Entry("data", Obj(<<Entry("txHash", Str("0xabc"))>>))>>
       ELSE IF result = "FAILED"
         THEN <<Entry("error",
                  Obj(<<Entry("message", Str("rejected")),
                        Entry("code", Str("E1"))>>))>>
       ELSE <<>>))

InboundActions == ActionResponse \cup {"WRONG_ACTION"}

InboundTexts ==
  {NotJson, JsonText(Null), JsonText(Num(42)),
   JsonText(Str("DEPOSIT_RESPONSE")), JsonText(Arr(<<>>)),
   JsonText(Obj(<<Entry("result", Str("SUCCESS"))>>))}
  \cup {JsonText(Envelope(a, r)) : a \in InboundActions, r \in TransactionResult}

\* The window receives a 'message' event carrying the text.
Deliver(text) ==
  LET st == dispatchEvent(Bundle, listeners, [data |-> text])
  IN  /\ delivered < MaxEvents
      /\ delivered' = delivered + 1
      /\ promises' = st.promises
      /\ listeners' = st.listeners
      /\ timers' = st.timers
      /\ ghost' = NoteReply(ghost, text)
      /\ UNCHANGED <<window, now, posted, input, output>>

\* An armed timeout runs its callback, no earlier than its due time.
TimerFire(id) ==
  \E timer \in timers :
    LET st == timeoutCallback(Bundle, timer)
    IN  /\ timer.id = id
        /\ now >= timer.due
        /\ timers' = timers \ {timer}
        /\ promises' = st.promises
        /\ listeners' = st.listeners
        /\ ghost' = NoteFired(ghost, id)
        /\ UNCHANGED <<window, now, posted, delivered, input, output>>

\* Time passes; beyond MaxNow only while an armed timeout is not yet due.
Tick ==
  /\ now < MaxNow \/ \E timer \in timers : now < timer.due
  /\ now' = now + TickMs
  /\ UNCHANGED <<window, promises, listeners, timers, posted, delivered,
                 ghost, input, output>>

NotCalled == [k |-> "not called"]
NoOutput ==
  [convertToString |-> NotCalled, convertToStringAgain |-> NotCalled,
   stringifyMessage |-> NotCalled]

Init ==
  /\ window \in InitialEnvironments
  /\ now = 0
  /\ promises = <<>>
  /\ listeners = <<>>
  /\ timers = {}
  /\ posted = <<>>
  /\ delivered = 0
  /\ ghost = <<>>
  /\ input = Undefined
  /\ output = NoOutput

Next ==
  \/ authenticate
  \/ deposit
  \/ withdraw
  \/ callSmartContract
  \/ \E text \in InboundTexts : Deliver(text)
  \/ \E id \in 1..MaxCalls : TimerFire(id)
  \/ Tick

Spec == Init /\ [][Next]_vars

(***************************************************************************)
(* A host that is not held to the declared response types: besides the     *)
(* texts above it sends envelopes with the expected action whose other      *)
(* fields do not fit any variant of the response union; JSON.parse hands    *)
(* them to handleMessage like any other.                                    *)
(***************************************************************************)
LooseShapes == {"success without data", "cancelled with error", "other result"}

LooseEnvelope(action, shape) ==
  IF shape = "success without data"
  THEN Obj(<<Entry("action", Str(action)), Entry("result", Str("SUCCESS"))>>)
  ELSE IF shape = "cancelled with error"
    THEN Obj(<<Entry("action", Str(action)), Entry("result", Str("CANCELLED")),
               Entry("error",
                 Obj(<<Entry("message", Str("rejected")),
                       Entry("code", Str("E1"))>>))>>)
  ELSE Obj(<<Entry("action", Str(action)), Entry("result", Str("PENDING"))>>)

HostTexts ==
  InboundTexts \cup
  {JsonText(LooseEnvelope(a, shape)) : a \in ActionResponse, shape \in LooseShapes}

HostNext ==
  \/ authenticate
  \/ deposit
  \/ withdraw
  \/ callSmartContract
  \/ \E text \in HostTexts : Deliver(text)
  \/ \E id \in 1..MaxCalls : TimerFire(id)
  \/ Tick

HostSpec == Init /\ [][HostNext]_vars

(***************************************************************************)
(* A caller that uses the facades in every way JavaScript lets it: in any   *)
(* environment, with optional fields given, left out or undefined, with     *)
(* fields the facade does not know, and with a trailing timeout argument   *)
(* (30000, the default that waitForResponse's comment documents).          *)
(***************************************************************************)
WithTimeout(datas) ==
  {<<data>> : data \in datas}
  \cup {<<data, Num(DefaultTimeout \div 2)>> : data \in datas}

DepositArguments ==
  WithTimeout(
    DepositInputs \cup
    {Obj(<<Entry("amount", Str("100")), Entry("tokenName", Str("USDC"))>>),
     Obj(<<Entry("amount", Str("100")), Entry("tokenName", Str("USDC")),
           Entry("chainId", Undefined),
           Entry("timeout", Num(DefaultTimeout \div 2))>>)})

WithdrawArguments ==
  WithTimeout(
    WithdrawInputs \cup
    {Obj(<<Entry("amount", Str("50")), Entry("tokenName", Str("ETH")),
           Entry("chainId", Num(137))>>)})

CallSmartContractArguments ==
  WithTimeout(
    CallSmartContractInputs \cup
    {Obj(<<Entry("contracts", Arr(<<Contract>>))>>),
     Obj(<<Entry("contracts", Arr(<<Contract>>)),
           Entry("titleValues", Obj(<<Entry("amount", Str("100"))>>)),
           Entry("descriptionValues",
                 Obj(<<Entry("token", Str("USDC"))>>))>>)})

AuthenticateArguments ==
  {<<>>, <<Undefined, Num(DefaultTimeout \div 2)>>}
  \cup WithTimeout(
         {Obj(<<>>),
          Obj(<<Entry("nonce", Str("n-1"))>>),
          Obj(<<Entry("nonce", Str("n-1")), Entry("chainId", Num(137))>>)})

authenticateAny ==
  /\ MayCall
  /\ \E args \in AuthenticateArguments : authenticateCall(args)

depositAny ==
  /\ MayCall
  /\ \E args \in DepositArguments : depositCall(args)

withdrawAny ==
  /\ MayCall
  /\ \E args \in WithdrawArguments : withdrawCall(args)

callSmartContractAny ==
  /\ MayCall
  /\ \E args \in CallSmartContractArguments : callSmartContractCall(args)

CallerInit ==
  /\ window \in Environments
  /\ now = 0
  /\ promises = <<>>
  /\ listeners = <<>>
  /\ timers = {}
  /\ posted = <<>>
  /\ delivered = 0
  /\ ghost = <<>>
  /\ input = Undefined
  /\ output = NoOutput

CallerNext ==
  \/ authenticateAny
  \/ depositAny
  \/ withdrawAny
  \/ callSmartContractAny
  \/ \E id \in 1..MaxCalls : TimerFire(id)
  \/ Tick

CallerSpec == CallerInit /\ [][CallerNext]_vars

(***************************************************************************)
(* Direct calls of the exported functions of utils.ts, on the values built *)
(* of leaves, arrays and objects up to MaxDepth levels deep.  The leaves    *)
(* are a BigInt beyond the safe integers, a negative BigInt and one value   *)
(* of every other primitive kind; an object may own the key '__proto__'    *)
(* (as JSON.parse and computed keys make it).                               *)
(***************************************************************************)
NegativeBigInt == BigInt(TRUE, <<1, 2>>)

Leaves ==
  {UnsafeBigInt, NegativeBigInt, Str("x"), Num(7), Bool(TRUE), Null, Undefined}

Keys == {"a", "__proto__"}

RECURSIVE NestedValues(_)
NestedValues(depth) ==
  IF depth = 0 THEN Leaves \cup {Arr(<<>>), Obj(<<>>)}
  ELSE LET inner == NestedValues(depth - 1)
       IN  inner
           \cup {Arr(<<x>>) : x \in inner}
           \cup {Arr(<<x, y>>) : x \in inner, y \in Leaves}
           \cup {Obj(<<Entry(key, x)>>) : key \in Keys, x \in inner}
           \cup {Obj(<<Entry("a", x), Entry("b", y)>>) :
                   x \in inner, y \in Leaves}

convertToStringCall ==
  /\ output.convertToString = NotCalled
  /\ output' = [output EXCEPT !.convertToString = convertToString(input)]
  /\ UNCHANGED <<window, now, promises, listeners, timers, posted, delivered,
                 ghost, input>>

\* convertToString is called with what it returned.
convertToStringAgainCall ==
  /\ output.convertToString # NotCalled
  /\ output.convertToStringAgain = NotCalled
  /\ output' = [output EXCEPT
                  !.convertToStringAgain =
                     convertToString(output.convertToString)]
  /\ UNCHANGED <<window, now, promises, listeners, timers, posted, delivered,
                 ghost, input>>

stringifyMessageCall ==
  /\ output.stringifyMessage = NotCalled
  /\ output' = [output EXCEPT !.stringifyMessage = stringifyMessage(input)]
  /\ UNCHANGED <<window, now, promises, listeners, timers, posted, delivered,
                 ghost, input>>

UtilsInit ==
  /\ window = NoWindow
  /\ now = 0
  /\ promises = <<>>
  /\ listeners = <<>>
  /\ timers = {}
  /\ posted = <<>>
  /\ delivered = 0
  /\ ghost = <<>>
  /\ input \in NestedValues(MaxDepth)
  /\ output = NoOutput

UtilsNext ==
  \/ convertToStringCall
  \/ convertToStringAgainCall
  \/ stringifyMessageCall

UtilsSpec == UtilsInit /\ [][UtilsNext]_vars

\* The timeout callback runs however long the wait: weak fairness of the
\* clock and of every armed timeout.
LiveSpec ==
  /\ Spec
  /\ WF_vars(Tick)
  /\ \A id \in 1..MaxCalls : WF_vars(TimerFire(id))

(***************************************************************************)
(* Properties.                                                             *)
(***************************************************************************)
Pending == {i \in DOMAIN promises : promises[i].status = "pending"}
Elapsed(i) == now - ghost[i].calledAt
TimeoutMessage(expectedAction) ==
  "Timeout, 60s passed waiting for " \o expectedAction \o " response."

\* C1: a facade call made while isWebView() is false rejects with
\* '<ACTION> can only be used inside a React Native WebView'; it posts no
\* message, registers no listener and starts no timer.
C1_NotInWebViewRejects ==
  ~isWebView(window) =>
    /\ posted = <<>>
    /\ listeners = <<>>
    /\ timers = {}
    /\ \A i \in DOMAIN promises :
         /\ promises[i].status = "rejected"
         /\ promises[i].value =
              Error(ghost[i].action
                    \o " can only be used inside a React Native WebView")
         /\ ghost[i].posts = 0

C1_Witness ==
  /\ ~isWebView(window)
  /\ window.defined
  /\ Len(promises) = 2
  /\ ghost[1].action = "WITHDRAW"
  /\ ghost[2].action = "AUTHENTICATE"
  /\ promises[1].value =
       Error("WITHDRAW can only be used inside a React Native WebView")

\* C2: the first inbound event with action = D delivered before the timeout
\* callback runs resolves the request with exactly that event's parsed
\* payload, and a request is resolved by nothing else.
C2_FirstReplyResolves ==
  \A i \in DOMAIN promises :
    /\ (ghost[i].replied /\ ghost[i].replyBeforeFire) =>
         /\ promises[i].status = "fulfilled"
         /\ promises[i].value = ghost[i].reply
    /\ promises[i].status = "fulfilled" =>
         /\ ghost[i].replied
         /\ ghost[i].replyBeforeFire
         /\ promises[i].value = ghost[i].reply

\* Two requests for the same action, the second resolved by a later reply
\* than the first.
C2_Witness ==
  /\ Len(promises) = 2
  /\ promises[1].expected = promises[2].expected
  /\ promises[1].status = "fulfilled"
  /\ promises[2].status = "fulfilled"
  /\ promises[1].value = Envelope(promises[1].expected, "SUCCESS")
  /\ promises[2].value = Envelope(promises[2].expected, "FAILED")

C4_SettledAtMostOnce ==
  \A i \in DOMAIN promises :
    /\ promises[i].resolveCalls + promises[i].rejectCalls <= 1
    /\ promises[i].status = "fulfilled" => ~ghost[i].fired

C4_Witness ==
  \E i \in DOMAIN promises :
    /\ promises[i].status = "fulfilled"
    /\ ghost[i].replyInTime
    /\ Elapsed(i) >= DefaultTimeout
    /\ delivered = MaxEvents

\* C5: with armed timers eventually firing, every facade call eventually
\* settles, whatever inbound events are delivered.
C5_EventuallySettles ==
  \A i \in 1..MaxCalls :
    (i \in DOMAIN promises) ~>
      (i \in DOMAIN promises /\ promises[i].status # "pending")

C5_Witness ==
  \E i \in DOMAIN promises :
    /\ promises[i].status = "rejected"
    /\ ghost[i].fired
    /\ ghost[i].seen = {"unparseable", "mismatch"}

\* C6: the registered listeners and the armed timers each correspond
\* one-to-one with the pending requests.
C6_NoLeak ==
  /\ {listeners[k] : k \in 1..Len(listeners)} = Pending
  /\ Len(listeners) = Cardinality(Pending)
  /\ {timer.id : timer \in timers} = Pending
  /\ Cardinality(timers) = Cardinality(Pending)

C6_Witness ==
  /\ Len(promises) = 2
  /\ promises[1].status = "rejected"
  /\ ghost[1].fired
  /\ promises[2].status = "pending"
  /\ listeners = <<2>>

\* C7 as stated: every facade call for which isWebView() is true posts
\* exactly one message.
C7_ExactlyOnePost ==
  isWebView(window) =>
    /\ \A i \in DOMAIN promises : ghost[i].posts = 1
    /\ Len(posted) = Len(promises)

\* C8: an inbound event whose data is not JSON settles nothing: every
\* promise, the listeners and the timers with their deadlines are as before.
C8_MalformedIgnored ==
  [][\A text \in InboundTexts :
       (delivered' = delivered + 1 /\ text.k # "json" /\ Deliver(text)) =>
         UNCHANGED <<promises, listeners, timers>>]_vars

C8_Witness ==
  \E i \in DOMAIN promises :
    /\ promises[i].status = "pending"
    /\ "unparseable" \in ghost[i].seen
    /\ \E k \in 1..Len(listeners) : listeners[k] = i
    /\ \E timer \in timers :
         timer.id = i /\ timer.due = ghost[i].calledAt + DefaultTimeout

\* C9: a request that was handed an inbound event that is JSON with another
\* action is, until an event with its expected action is delivered or its
\* timeout callback runs, still pending with its listener and its timer
\* as armed; an event with the expected action then still resolves it.
C9_MismatchIgnored ==
  \A i \in DOMAIN promises :
    "mismatch" \in ghost[i].seen =>
      /\ (~ghost[i].replied /\ ~ghost[i].fired) =>
           /\ promises[i].status = "pending"
           /\ promises[i].resolveCalls + promises[i].rejectCalls = 0
           /\ SelectSeq(listeners, LAMBDA l : l = i) = <<i>>
           /\ {timer \in timers : timer.id = i} =
                {[id |-> i, due |-> ghost[i].calledAt + DefaultTimeout,
                  timeout |-> DefaultTimeout]}
      /\ (ghost[i].replied /\ ghost[i].replyBeforeFire) =>
           /\ promises[i].status = "fulfilled"
           /\ promises[i].value = ghost[i].reply

C9_Witness ==
  \E i \in DOMAIN promises :
    /\ "mismatch" \in ghost[i].seen
    /\ promises[i].status = "fulfilled"
    /\ promises[i].value = ghost[i].reply

\* C10: a reply whose result is FAILED or CANCELLED resolves the promise
\* with that payload; a promise is rejected only by the WebView check and
\* by the timeout.
C10_FailureResolves ==
  \A i \in DOMAIN promises :
    /\ (/\ ghost[i].replied
        /\ ghost[i].replyBeforeFire
        /\ GetKey(ghost[i].reply, "result") \in {Str("FAILED"), Str("CANCELLED")})
         => /\ promises[i].status = "fulfilled"
            /\ promises[i].value = ghost[i].reply
    /\ promises[i].status = "rejected" =>
         \/ /\ ~ghost[i].subscribed
            /\ promises[i].value =
                 Error(ghost[i].action
                       \o " can only be used inside a React Native WebView")
         \/ /\ ghost[i].fired
            /\ promises[i].value = Error(TimeoutMessage(ghost[i].expected))

C10_Witness ==
  /\ Len(promises) = 2
  /\ promises[1].status = "fulfilled"
  /\ GetKey(promises[1].value, "result") = Str("FAILED")
  /\ HasKey(promises[1].value, "error")
  /\ promises[2].status = "fulfilled"
  /\ GetKey(promises[2].value, "result") = Str("CANCELLED")

\* C11: a settled request is inert: no step, be it an inbound event with its
\* expected action or the passage of time, changes its outcome, its payload
\* or the number of times its promise was resolved or rejected, and it has
\* no listener and no timer any more.
C11_SettledIsInert ==
  [][\A i \in DOMAIN promises :
       promises[i].status # "pending" =>
         /\ promises'[i] = promises[i]
         /\ \A k \in 1..Len(listeners') : listeners'[k] # i
         /\ \A timer \in timers' : timer.id # i]_vars

\* A resolved request after which another reply with its expected action
\* was delivered and its timeout has elapsed.
C11_Witness ==
  /\ Len(promises) = 2
  /\ promises[1].expected = promises[2].expected
  /\ promises[1].status = "fulfilled"
  /\ promises[1].resolveCalls = 1
  /\ promises[1].value = Envelope(promises[1].expected, "SUCCESS")
  /\ promises[2].status = "fulfilled"
  /\ promises[2].value = Envelope(promises[2].expected, "CANCELLED")
  /\ Elapsed(1) >= DefaultTimeout

\* C12 as stated: of several pending requests with the same expected action
\* an inbound event with that action settles the first-subscribed only; the
\* others remain pending.
C12_FirstSubscribedOnly ==
  [][\A i, j \in Pending :
       (/\ i < j
        /\ promises[i].expected = promises[j].expected
        /\ promises'[i].status = "fulfilled")
         => promises'[j].status = "pending"]_vars

\* C12 amended: an inbound event with the expected action of several pending
\* requests settles every one of them, with the same payload; none of them
\* remains pending.
C12_EveryPendingResolved ==
  [][\A i, j \in Pending :
       (/\ promises[i].expected = promises[j].expected
        /\ promises'[i].status = "fulfilled")
         => /\ promises'[j].status = "fulfilled"
            /\ promises'[j].value = promises'[i].value]_vars

\* One event, two requests resolved.
C12_Witness ==
  /\ delivered = 1
  /\ Len(promises) = 2
  /\ promises[1].expected = promises[2].expected
  /\ promises[1].status = "fulfilled"
  /\ promises[2].status = "fulfilled"
  /\ promises[1].value = promises[2].value
  /\ listeners = <<>>
  /\ timers = {}

\* C13: each facade sends its own action and waits for the response action
\* of the same name; a facade's promise is resolved only by a reply with
\* that response action.
C13_FacadePairs ==
  LET ResponseOf ==
        [a \in WebViewAction |->
           IF a = "AUTHENTICATE" THEN "AUTHENTICATE_RESPONSE"
           ELSE IF a = "DEPOSIT" THEN "DEPOSIT_RESPONSE"
           ELSE IF a = "WITHDRAW" THEN "WITHDRAW_RESPONSE"
           ELSE "CALL_SMART_CONTRACT_RESPONSE"]
  IN  \A i \in DOMAIN promises :
        /\ ghost[i].action \in WebViewAction
        /\ ghost[i].posts = 1 =>
             GetKey(posted[i].doc, "action") = Str(ghost[i].action)
        /\ ghost[i].subscribed =>
             promises[i].expected = ResponseOf[ghost[i].action]
        /\ promises[i].status = "fulfilled" =>
             GetKey(promises[i].value, "action") =
               Str(ResponseOf[ghost[i].action])

\* A deposit and a callSmartContract, the second handed the reply of the
\* first before its own.
C13_Witness ==
  /\ Len(promises) = 2
  /\ Len(posted) = 2
  /\ ghost[1].action = "DEPOSIT"
  /\ ghost[2].action = "CALL_SMART_CONTRACT"
  /\ promises[1].status = "fulfilled"
  /\ promises[2].status = "fulfilled"
  /\ "mismatch" \in ghost[2].seen

\* C14 as stated: every resolved response has a result among SUCCESS, FAILED
\* and CANCELLED, data exactly when the result is SUCCESS and error exactly
\* when it is FAILED (so neither when it is CANCELLED).
C14_ThreeWayOutcome ==
  \A i \in DOMAIN promises :
    promises[i].status = "fulfilled" =>
      /\ GetKey(promises[i].value, "result") \in
           {Str("SUCCESS"), Str("FAILED"), Str("CANCELLED")}
      /\ HasKey(promises[i].value, "data") <=>
           GetKey(promises[i].value, "result") = Str("SUCCESS")
      /\ HasKey(promises[i].value, "error") <=>
           GetKey(promises[i].value, "result") = Str("FAILED")

C16_WireText ==
  LET FieldsOf ==
        [a \in WebViewAction |->
           IF a = "DEPOSIT" THEN <<"amount", "tokenName", "chainId">>
           ELSE IF a = "WITHDRAW" THEN <<"amount", "tokenName">>
           ELSE IF a = "CALL_SMART_CONTRACT"
             THEN <<"contracts", "titleValues", "descriptionValues">>
           ELSE <<"nonce", "chainId">>]
      ContractOnWire ==
        Obj(<<Entry("contractAddress", Str("0x1")),
              Entry("functionName", Str("transfer")),
              Entry("functionParams",
                    Arr(<<Str("0x2"), Str("9007199254740993")>>)),
              Entry("value", Str("0"))>>)
      OnWire(value) ==
        IF value = Arr(<<Contract>>) THEN Arr(<<ContractOnWire>>) ELSE value
      DataOf(args) ==
        IF args = <<>> \/ args[1] = Undefined THEN Obj(<<>>) ELSE args[1]
      Supplied(a, args) ==
        SelectSeq(FieldsOf[a],
                  LAMBDA key : /\ HasKey(DataOf(args), key)
                               /\ GetKey(DataOf(args), key) # Undefined)
  IN  \A i \in DOMAIN promises :
        ghost[i].posts = 1 =>
          posted[i] =
            JsonText(
              Obj(<<Entry("action", Str(ghost[i].action)),
                    Entry("data",
                      Obj([n \in 1..Len(Supplied(ghost[i].action,
                                                  ghost[i].args)) |->
                             LET key == Supplied(ghost[i].action,
                                                 ghost[i].args)[n]
                             IN  Entry(key,
                                   OnWire(GetKey(DataOf(ghost[i].args),
                                                 key)))]))>>))

\* authenticate() posting an empty data object, then a callSmartContract
\* with all three fields.
C16_Witness ==
  /\ Len(posted) = 2
  /\ ghost[1].args = <<>>
  /\ posted[1] =
       JsonText(Obj(<<Entry("action", Str("AUTHENTICATE")),
                      Entry("data", Obj(<<>>))>>))
  /\ ghost[2].action = "CALL_SMART_CONTRACT"
  /\ HasKey(ghost[2].args[1], "descriptionValues")
  /\ HasKey(GetKey(posted[2].doc, "data"), "descriptionValues")

\* C17: isWebView() is true exactly when there is a window and the bridge
\* object is present, or the user agent contains 'ReactNativeWebView', or
\* the root element has the class 'ReactNativeWebView'; without a window it
\* is false.  A facade call waits for a response in exactly these
\* environments and is rejected as not in a WebView in the others.
C17_IsWebViewIsDisjunction ==
  LET hosted ==
        /\ window.defined
        /\ \/ window.ReactNativeWebView
           \/ \E k \in 1..Len(window.userAgent) :
                window.userAgent[k] = "ReactNativeWebView"
           \/ "ReactNativeWebView" \in window.classList
  IN  /\ isWebView(window) = hosted
      /\ ~window.defined => isWebView(window) = FALSE
      /\ \A i \in DOMAIN promises :
           /\ ghost[i].subscribed = hosted
           /\ ~hosted =>
                promises[i].value =
                  Error(ghost[i].action
                        \o " can only be used inside a React Native WebView")

\* A call that waits in a window whose only marker is the class of the
\* root element.
C17_Witness ==
  /\ window.defined
  /\ ~window.ReactNativeWebView
  /\ window.userAgent = <<"Mozilla/5.0 ", "reactnativewebview", "/1.0">>
  /\ window.classList = {"ReactNativeWebView"}
  /\ Len(promises) = 1
  /\ ghost[1].subscribed
  /\ promises[1].status = "pending"

\* C18 as stated: every BigInt of a value built of nested arrays and objects
\* is, in JSON.parse(stringifyMessage(value)), at the same position (the
\* same indexes and keys) its exact decimal string.
C18_BigIntsSurvive ==
  LET ExactDecimal(big) ==
        IF big = UnsafeBigInt THEN "9007199254740993" ELSE "-12"
      RECURSIVE HasBigInt(_)
      HasBigInt(value) ==
        IF value.t = "bigint" THEN TRUE
        ELSE IF value.t = "array"
          THEN \E n \in 1..Len(value.v) : HasBigInt(value.v[n])
        ELSE IF value.t = "object"
          THEN \E n \in 1..Len(value.v) : HasBigInt(value.v[n][2])
        ELSE FALSE
      RECURSIVE Kept(_, _)
      Kept(value, parsed) ==
        IF value.t = "bigint" THEN parsed = Str(ExactDecimal(value))
        ELSE IF value.t = "array"
          THEN /\ parsed.t = "array"
               /\ Len(parsed.v) = Len(value.v)
               /\ \A n \in 1..Len(value.v) : Kept(value.v[n], parsed.v[n])
        ELSE IF value.t = "object"
          THEN /\ parsed.t = "object"
               /\ \A n \in 1..Len(value.v) :
                    HasBigInt(value.v[n][2]) =>
                      /\ HasKey(parsed, value.v[n][1])
                      /\ Kept(value.v[n][2], GetKey(parsed, value.v[n][1]))
        ELSE TRUE
  IN  (output.stringifyMessage # NotCalled /\ HasBigInt(input)) =>
        /\ output.stringifyMessage.k = "json"
        /\ JSONParse(output.stringifyMessage).ok
        /\ Kept(input, JSONParse(output.stringifyMessage).value)

\* C19 as stated: the result of convertToString has the shape of its input
\* (the same array lengths and element order, the same object keys), every
\* leaf that is no BigInt is unchanged, and empty arrays and objects are
\* empty arrays and objects.
C19_OnlyBigIntsChange ==
  LET RECURSIVE Same(_, _)
      Same(value, result) ==
        IF value.t = "bigint" THEN result.t = "string"
        ELSE IF value.t = "array"
          THEN /\ result.t = "array"
               /\ Len(result.v) = Len(value.v)
               /\ \A n \in 1..Len(value.v) : Same(value.v[n], result.v[n])
        ELSE IF value.t = "object"
          THEN /\ result.t = "object"
               /\ Len(result.v) = Len(value.v)
               /\ \A n \in 1..Len(value.v) :
                    /\ result.v[n][1] = value.v[n][1]
                    /\ Same(value.v[n][2], result.v[n][2])
        ELSE result = value
  IN  output.convertToString # NotCalled =>
        Same(input, output.convertToString)

\* C20: replies are attributed by action only: whenever the first reply for
\* a request that has timed out is delivered while another request for the
\* same action is pending, it resolves that other request with its payload.
C20_LateReplySettlesOther ==
  [][\A i, j \in DOMAIN promises :
       (/\ i # j
        /\ ghost[i].fired
        /\ ~ghost[i].replied
        /\ ghost'[i].replied
        /\ promises[j].status = "pending"
        /\ promises[j].expected = promises[i].expected)
         => /\ promises'[j].status = "fulfilled"
            /\ promises'[j].value = ghost'[i].reply]_vars

\* Request 1 has timed out, request 2 for the same action was then made,
\* and the only reply the host ever sent, late for request 1, has resolved
\* request 2.
C20_Witness ==
  /\ Len(promises) = 2
  /\ Len(posted) = 2
  /\ posted[1] = posted[2]
  /\ promises[1].expected = promises[2].expected
  /\ ghost[1].fired
  /\ promises[1].status = "rejected"
  /\ ghost[2].calledAt >= ghost[1].calledAt + DefaultTimeout
  /\ delivered = 1
  /\ ghost[1].replied
  /\ ~ghost[1].replyBeforeFire
  /\ promises[2].status = "fulfilled"
  /\ promises[2].value = ghost[1].reply

\* C21: requests pending for different actions do not interfere: a step
\* that resolves one of them leaves the other as it was, pending with its
\* listener and its timer, and resolves the one with a reply of its own
\* action, whichever reply comes first.
C21_DifferentActionsIndependent ==
  [][\A i, j \in Pending :
       (/\ promises[i].expected # promises[j].expected
        /\ promises'[i].status = "fulfilled")
         => /\ GetKey(promises'[i].value, "action") =
                 Str(promises[i].expected)
            /\ promises'[j] = promises[j]
            /\ SelectSeq(listeners', LAMBDA l : l = j) = <<j>>
            /\ {timer \in timers' : timer.id = j} =
                 {timer \in timers : timer.id = j}
            /\ Cardinality({timer \in timers' : timer.id = j}) = 1]_vars

\* A withdraw made after a deposit and resolved before it: the deposit was
\* handed the reply of the withdraw and then resolved by its own.
C21_Witness ==
  /\ Len(promises) = 2
  /\ ghost[1].action = "DEPOSIT"
  /\ ghost[2].action = "WITHDRAW"
  /\ "mismatch" \in ghost[1].seen
  /\ promises[1].status = "fulfilled"
  /\ promises[1].value = Envelope("DEPOSIT_RESPONSE", "SUCCESS")
  /\ promises[2].status = "fulfilled"
  /\ promises[2].value = Envelope("WITHDRAW_RESPONSE", "FAILED")

\* C22: a step that settles requests unregisters exactly their listeners
\* and removes exactly their timers; each of them is settled by its own
\* reply or its own timeout callback, and every other pending request keeps
\* its promise, its listener and its timer.
C22_OnlyOwnResources ==
  [][LET settled == {i \in Pending : promises'[i].status # "pending"}
     IN  Len(promises') = Len(promises) =>
           /\ listeners' = SelectSeq(listeners, LAMBDA l : l \notin settled)
           /\ timers' = {timer \in timers : timer.id \notin settled}
           /\ \A j \in Pending \ settled : promises'[j] = promises[j]
           /\ \A i \in settled :
                \/ ~ghost[i].fired /\ ghost'[i].fired
                \/ ~ghost[i].replied /\ ghost'[i].replied]_vars

\* A deposit resolved while a withdraw, handed the same event, is still
\* pending with its listener and its timer.
C22_Witness ==
  /\ Len(promises) = 2
  /\ ghost[1].action = "DEPOSIT"
  /\ promises[1].status = "fulfilled"
  /\ ghost[2].action = "WITHDRAW"
  /\ promises[2].status = "pending"
  /\ ghost[2].seen = {"mismatch"}
  /\ listeners = <<2>>
  /\ timers = {[id |-> 2, due |-> ghost[2].calledAt + DefaultTimeout,
                timeout |-> DefaultTimeout]}

\* C23: the step of a facade call that posts the message also arms the
\* timer and registers the listener, before any inbound event; from then
\* on, until its reply or its timeout callback, every inbound event finds
\* the handler of the request registered, and a reply resolves it.
C23_NoLostReply ==
  [][/\ (Len(promises') = Len(promises) + 1 /\ posted' # posted) =>
          /\ delivered' = delivered
          /\ listeners' = Append(listeners, Len(promises'))
          /\ \E timer \in timers' : timer.id = Len(promises')
          /\ promises'[Len(promises')].status = "pending"
      /\ \A i \in DOMAIN promises :
           (/\ ghost[i].posts = 1
            /\ ~ghost[i].fired
            /\ ~ghost[i].replied
            /\ delivered' = delivered + 1)
             => /\ \E k \in 1..Len(listeners) : listeners[k] = i
                /\ ghost'[i].replied =>
                     /\ promises'[i].status = "fulfilled"
                     /\ promises'[i].value = ghost'[i].reply]_vars

\* A reply delivered right after the call, before any time has passed.
C23_Witness ==
  /\ Len(promises) = 1
  /\ ghost[1].posts = 1
  /\ delivered = 1
  /\ now = ghost[1].calledAt
  /\ promises[1].status = "fulfilled"
  /\ promises[1].value = ghost[1].reply

\* C24: an inbound event whose data is not JSON, or is JSON that is no
\* object with an action (null, a number, a string, an array, an object
\* without action), settles nothing: every promise, the listeners and the
\* timers are as before, so the handler has returned and stays registered.
C24_NonEnvelopeIgnored ==
  [][\A text \in InboundTexts :
       (/\ delivered' = delivered + 1
        /\ \/ text.k # "json"
           \/ text.doc.t # "object"
           \/ ~HasKey(text.doc, "action")
        /\ Deliver(text))
         => UNCHANGED <<promises, listeners, timers>>]_vars

\* A request still pending after invalid JSON and JSON without an action.
C24_Witness ==
  \E i \in DOMAIN promises :
    /\ ghost[i].seen = {"unparseable", "no action"}
    /\ delivered = 2
    /\ promises[i].status = "pending"
    /\ promises[i].resolveCalls + promises[i].rejectCalls = 0
    /\ \E k \in 1..Len(listeners) : listeners[k] = i
    /\ \E timer \in timers : timer.id = i

\* C25: convertToString is idempotent, convertToString(convertToString(x))
\* is convertToString(x), and what it returns has no BigInt at any depth.
C25_Idempotent ==
  LET RECURSIVE NoBigInt(_)
      NoBigInt(value) ==
        IF value.t = "bigint" THEN FALSE
        ELSE IF value.t = "array"
          THEN \A n \in 1..Len(value.v) : NoBigInt(value.v[n])
        ELSE IF value.t = "object"
          THEN \A n \in 1..Len(value.v) : NoBigInt(value.v[n][2])
        ELSE TRUE
  IN  /\ output.convertToString # NotCalled =>
           NoBigInt(output.convertToString)
      /\ output.convertToStringAgain # NotCalled =>
           output.convertToStringAgain = output.convertToString

\* An object with an array of a BigInt beyond the safe integers and a
\* negative one, converted twice.
C25_Witness ==
  /\ input = Obj(<<Entry("a", Arr(<<UnsafeBigInt, NegativeBigInt>>)),
                   Entry("b", Undefined)>>)
  /\ output.convertToString =
       Obj(<<Entry("a", Arr(<<Str("9007199254740993"), Str("-12")>>)),
             Entry("b", Undefined)>>)
  /\ output.convertToStringAgain = output.convertToString

====
